---- MODULE Spec2Model ----
(***************************************************************************)
(* State-machine model of mumble-streams: the Mumble varint codec and the  *)
(* voice packet Encoder/Decoder (src/lib/voice.js), the control-channel    *)
(* Encoder/Decoder (src/lib/data.js) and the OCB2 UDP crypto state         *)
(* UdpCrypt (src/unnamed/part_001).                                        *)
(*                                                                         *)
(* Conventions.  A Buffer is a sequence of bytes (0..255); JavaScript      *)
(* index i is TLA+ index i+1.  The bitwise operators of JavaScript work on *)
(* 32-bit two's-complement integers, which are modelled exactly.  A        *)
(* JavaScript number that may exceed 2^31-1 (the argument of toVarint) is  *)
(* held as two 16-bit limbs, value = hi * 65536 + lo.                      *)
(***************************************************************************)
EXTENDS Integers, Sequences, FiniteSets, TLC

VARIABLES
  \* varint codec harness
  vin, venc, vdec, vpc,
  \* voice Encoder / Decoder
  vdest, vorig, vpacket, vwire, vchunk, vout, voicepc,
  \* UdpCrypt: sender S (sEncryptIV) and receiver R (the other fields)
  key, sEncryptIV, decryptIV, encryptIV, decryptHistory, stats,
  net, delivered, inOrder, lastCall, accepted,
  \* control Encoder / Decoder
  csent, cwire, cbuffer, cbufferSize, cemitted, cerror, cfed, cchunks,
  cencoded

varintVars == <<vin, venc, vdec, vpc>>
voiceVars == <<vdest, vorig, vpacket, vwire, vchunk, vout, voicepc>>
cryptVars == <<key, sEncryptIV, decryptIV, encryptIV, decryptHistory, stats,
               net, delivered, inOrder, lastCall, accepted>>
ctlVars == <<csent, cwire, cbuffer, cbufferSize, cemitted, cerror, cfed,
             cchunks, cencoded>>
vars == <<varintVars, voiceVars, cryptVars, ctlVars>>

-----------------------------------------------------------------------------
(* JavaScript values                                                       *)

\* null, as returned by fromVarint and UdpCrypt.decrypt
Null == [null |-> TRUE]

Byte == 0..255

\* b[i] read inside a bitwise expression: an index past the end reads
\* undefined, which ToInt32 turns into 0
ByteAt(b, i) == IF i < Len(b) THEN b[i + 1] ELSE 0

\* Buffer.slice(start, end): both ends are clamped to the buffer
Slice(b, start, end) ==
  LET e == IF end > Len(b) THEN Len(b) ELSE end
      s == IF start > e THEN e ELSE start
  IN  SubSeq(b, s + 1, e)

SliceFrom(b, start) == Slice(b, start, Len(b))

\* a JavaScript number as two limbs
Wide(hi, lo) == [hi |-> hi, lo |-> lo]
WFromInt(x) == Wide(x \div 65536, x % 65536)
WLess(a, b) == a.hi < b.hi \/ (a.hi = b.hi /\ a.lo < b.lo)

\* ToInt32 of a JavaScript number: its value modulo 2^32, read as signed
ToInt32(w) ==
  LET h == w.hi % 65536
  IN  (IF h >= 32768 THEN h - 65536 ELSE h) * 65536 + w.lo

\* ~a on a 32-bit two's-complement integer
BitNot(a) == (0 - 1) - a

\* a & b and a | b for a, b >= 0, bit by bit from the low end
RECURSIVE AndN(_, _)
AndN(a, b) ==
  IF a = 0 \/ b = 0 THEN 0
  ELSE (a % 2) * (b % 2) + 2 * AndN(a \div 2, b \div 2)

RECURSIVE OrN(_, _)
OrN(a, b) ==
  IF a = 0 THEN b
  ELSE IF b = 0 THEN a
  ELSE (IF (a % 2) + (b % 2) > 0 THEN 1 ELSE 0) + 2 * OrN(a \div 2, b \div 2)

\* a & b, a | b on 32-bit two's-complement integers (a negative operand is
\* the complement of a non-negative one)
BitAnd(a, b) ==
  IF a >= 0 /\ b >= 0 THEN AndN(a, b)
  ELSE IF a >= 0 THEN a - AndN(a, BitNot(b))
  ELSE IF b >= 0 THEN b - AndN(b, BitNot(a))
  ELSE BitNot(OrN(BitNot(a), BitNot(b)))

BitOr(a, b) ==
  IF a >= 0 /\ b >= 0 THEN OrN(a, b)
  ELSE BitNot(BitAnd(BitNot(a), BitNot(b)))

\* a << n, 1 <= n <= 30: the bits below 2^(31-n) move up, bit 31-n becomes
\* the sign bit, the bits above are lost
Shl(a, n) ==
  LET m == 2 ^ (31 - n)
  IN  (a % m) * (2 ^ n)
        + (IF (a \div m) % 2 = 1 THEN (0 - 2147483647) - 1 ELSE 0)

\* a >> n (sign-propagating)
Shr(a, n) == a \div (2 ^ n)

-----------------------------------------------------------------------------
(* Mumble varint: toVarint and fromVarint of src/lib/voice.js              *)

\* what toVarint returns: the object {value, length}, a bare Buffer (the
\* early return for -4..-1), or a thrown TypeError
VarintObject(arr) == [shape |-> "object", value |-> arr, length |-> Len(arr)]
VarintBuffer(arr) == [shape |-> "buffer", bytes |-> arr]
VarintThrow == [shape |-> "throw"]

\* the unsigned part of toVarint: arr is what has been pushed so far
toVarintUnsigned(arr, i) ==
  LET n == ToInt32(i)
  IN  IF WLess(i, Wide(0, 128))
      THEN VarintObject(arr \o <<i.lo>>)
      ELSE IF WLess(i, Wide(0, 16384))
      THEN VarintObject(arr \o <<BitOr(Shr(n, 8), 128), BitAnd(n, 255)>>)
      ELSE IF WLess(i, Wide(32, 0))
      THEN VarintObject(arr \o <<BitOr(Shr(n, 16), 192),
                                  BitAnd(Shr(n, 8), 255), BitAnd(n, 255)>>)
      ELSE IF WLess(i, Wide(4096, 0))
      THEN VarintObject(arr \o <<BitOr(Shr(n, 24), 224),
                                  BitAnd(Shr(n, 16), 255),
                                  BitAnd(Shr(n, 8), 255), BitAnd(n, 255)>>)
      ELSE IF WLess(i, Wide(65536, 0))
      THEN VarintObject(arr \o <<240, BitAnd(Shr(n, 24), 255),
                                  BitAnd(Shr(n, 16), 255),
                                  BitAnd(Shr(n, 8), 255), BitAnd(n, 255)>>)
      ELSE VarintThrow

toVarint(i) ==
  IF i.hi < 0
  THEN LET j == BitNot(ToInt32(i))
       IN  IF j <= 3
           THEN VarintBuffer(<<BitOr(252, j)>>)
           ELSE toVarintUnsigned(<<248>>, WFromInt(j))
  ELSE toVarintUnsigned(<<>>, i)

\* the bytes a toVarint result holds, whatever its shape
VarintBytes(r) ==
  IF r.shape = "object" THEN r.value
  ELSE IF r.shape = "buffer" THEN r.bytes ELSE <<>>

RECURSIVE fromVarint(_)
fromVarint(b) ==
  IF Len(b) = 0 THEN Null
  ELSE
    LET v == b[1]
    IN  IF BitAnd(v, 128) = 0
        THEN [value |-> BitAnd(v, 127), length |-> 1]
        ELSE IF BitAnd(v, 192) = 128
        THEN [value |-> BitOr(Shl(BitAnd(v, 63), 8), ByteAt(b, 1)),
              length |-> 2]
        ELSE IF BitAnd(v, 240) = 240
        THEN LET sw == BitAnd(v, 252)
             IN  IF sw = 240
                 THEN [value |-> BitOr(BitOr(Shl(ByteAt(b, 1), 24),
                                             Shl(ByteAt(b, 2), 16)),
                                       BitOr(Shl(ByteAt(b, 3), 8),
                                             ByteAt(b, 4))),
                       length |-> 5]
                 ELSE IF sw = 248
                 THEN LET ret == fromVarint(SliceFrom(b, 1))
                      IN  IF ret = Null THEN Null
                          ELSE [value |-> BitNot(ret.value),
                                length |-> 1 + ret.length]
                 ELSE IF sw = 252
                 THEN [value |-> BitNot(BitAnd(v, 3)), length |-> 1]
                 ELSE Null
        ELSE IF BitAnd(v, 240) = 224
        THEN [value |-> BitOr(BitOr(Shl(BitAnd(v, 15), 24),
                                    Shl(ByteAt(b, 1), 16)),
                              BitOr(Shl(ByteAt(b, 2), 8), ByteAt(b, 3))),
              length |-> 4]
        ELSE \* ( v & 0xE0 ) === 0xC0
             [value |-> BitOr(BitOr(Shl(BitAnd(v, 31), 16),
                                    Shl(ByteAt(b, 1), 8)),
                              ByteAt(b, 2)),
              length |-> 3]

-----------------------------------------------------------------------------
(* Voice packets: Encoder and Decoder of src/lib/voice.js                  *)

\* a property that is not set on a packet object
Undefined == [undefined |-> TRUE]

\* a voice packet (VoiceData); position is Undefined or {x, y, z}, each a
\* 32-bit float held as the 4 bytes writeFloatBE stores and readFloatBE reads
VoiceData(codec, mode, source, seqNum, end, frames, position) ==
  [timestamp |-> Undefined, codec |-> codec, mode |-> mode,
   source |-> source, seqNum |-> seqNum, end |-> end, frames |-> frames,
   position |-> position]

\* a ping packet (PingData)
PingData(timestamp) == [timestamp |-> timestamp]

\* what a _transform call hands to its callback: a chunk, an error, nothing
\* but a 'debug' event, or an exception thrown out of _transform
Pushed(x) == [kind |-> "data", data |-> x]
\* the error swallowed: an empty chunk is pushed instead
FailedSilently(msg) == Pushed(<<>>)

Failed(msg) == [kind |-> "error", error |-> msg]
Thrown == [kind |-> "throw"]
Rejected(reason, unknownCodec) ==
  [kind |-> "debug", reason |-> reason, unknown_codec |-> unknownCodec]

RECURSIVE Concat(_)
Concat(bufs) == IF bufs = <<>> THEN <<>> ELSE Head(bufs) \o Concat(Tail(bufs))

\* the frame headers pushed without the continuation bit
RECURSIVE CeltPushBare(_)
CeltPushBare(frames) ==
  IF frames = <<>> THEN <<>>
  ELSE <<<<Len(Head(frames))>>, Head(frames)>> \o CeltPushBare(Tail(frames))

\* lines 100-120: the CELT/Speex frame list as the array of buffers the loop
\* pushes, header and frame alternating
RECURSIVE CeltPush(_)
CeltPush(frames) ==
  IF frames = <<>> THEN <<>>
  ELSE <<<<BitOr(Len(Head(frames)), 128)>>, Head(frames)>>
         \o CeltPush(Tail(frames))

\* the continuation bit left set on every header
KeepContinuation(voiceData) == voiceData

\* voiceData[voiceData.length - 2][0] &= 0x7F
UnsetContinuation(voiceData) ==
  LET k == Len(voiceData) - 1
  IN  [voiceData EXCEPT ![k] = <<BitAnd(voiceData[k][1], 127)>>]

CeltVoiceData(chunk) ==
  LET pushed == CeltPush(chunk.frames)
      withEnd == IF chunk.end THEN pushed \o <<<<0>>, <<>>>> ELSE pushed
  IN  Concat(UnsetContinuation(withEnd))

\* lines 85-123: [codecId, voiceData] or the error handed to the callback
EncodeVoiceData(chunk) ==
  IF chunk.codec = "Opus"
  THEN IF Len(chunk.frames) > 1
       THEN Failed("Opus only supports a single frame per packet")
       ELSE LET endBit == IF chunk.end THEN 8192 ELSE 0
            IN  IF Len(chunk.frames) = 0
                THEN [kind |-> "ok", codecId |-> 4,
                      voiceData |-> toVarint(WFromInt(endBit)).value]
                ELSE [kind |-> "ok", codecId |-> 4,
                      voiceData |->
                        toVarint(WFromInt(BitOr(Len(chunk.frames[1]),
                                                endBit))).value
                          \o chunk.frames[1]]
  ELSE IF chunk.codec \in {"CELT_Alpha", "CELT_Beta", "Speex"}
  THEN IF Len(chunk.frames) = 0 /\ ~chunk.end
       THEN Failed("No frames given but end bit is not set")
       ELSE IF \E i \in 1..Len(chunk.frames) : Len(chunk.frames[i]) > 127
       THEN Failed("Frame size is greater than 127 bytes")
       ELSE [kind |-> "ok",
             codecId |-> CASE chunk.codec = "CELT_Alpha" -> 0
                           [] chunk.codec = "Speex" -> 2
                           [] chunk.codec = "CELT_Beta" -> 3,
             voiceData |-> CeltVoiceData(chunk)]
  ELSE Failed("Unknown codec")

\* toVarint(x).value.copy(buffer, offset): the early-return Buffer of
\* toVarint has no .value, so .copy throws
VarintCopyThrows(r) == r.shape # "object"

\* Encoder.prototype._transform
VoiceEncoderTransform(dest, chunk) ==
  IF chunk.timestamp # Undefined
  THEN LET t == toVarint(chunk.timestamp)
       IN  IF VarintCopyThrows(t) THEN Thrown
           ELSE Pushed(<<32>> \o t.value)
  ELSE
    LET vd == EncodeVoiceData(chunk)
    IN  IF vd.kind # "ok" THEN vd
        ELSE
          LET header == <<BitOr(Shl(vd.codecId, 5), chunk.mode)>>
              src == toVarint(chunk.source)
              seq == toVarint(chunk.seqNum)
              pos == IF chunk.position = Undefined THEN <<>>
                     ELSE chunk.position.x \o chunk.position.y
                            \o chunk.position.z
          IN  IF dest = "client" /\ VarintCopyThrows(src) THEN Thrown
              ELSE IF VarintCopyThrows(seq) THEN Thrown
              ELSE Pushed(header
                          \o (IF dest = "client" THEN src.value ELSE <<>>)
                          \o seq.value \o vd.voiceData \o pos)

\* ['normal', 'shout', 'whisper'][target] || 'loopback'
TargetName(target) ==
  IF target = 0 THEN "normal"
  ELSE IF target = 1 THEN "shout"
  ELSE IF target = 2 THEN "whisper" ELSE "loopback"

\* line 216, codecId == 0 || codecIf == 2 || codecId == 3: codecIf is not
\* declared anywhere, so evaluating it throws a ReferenceError
CeltCondition(codecId) ==
  IF codecId = 0 THEN "true" ELSE "ReferenceError"

\* lines 219-238: the frame loop
RECURSIVE CeltFrames(_, _, _)
CeltFrames(chunk, offset, frames) ==
  IF Len(chunk) < offset + 1
  THEN [reject |-> "missing frame header"]
  ELSE
    LET header == chunk[offset + 1]
        more == BitAnd(header, 128) > 0
        frameLength == BitAnd(header, 127)
    IN  IF header = 0
        THEN [reject |-> "", end |-> TRUE, frames |-> frames,
              offset |-> offset + 1]
        ELSE IF Len(chunk) < offset + 1 + frameLength
        THEN [reject |-> "not enough voice data"]
        ELSE
          LET fs == Append(frames,
                           Slice(chunk, offset + 1, offset + 1 + frameLength))
          IN  IF ~more
              THEN [reject |-> "", end |-> FALSE, frames |-> fs,
                    offset |-> offset + 1 + frameLength]
              ELSE CeltFrames(chunk, offset + 1 + frameLength, fs)

\* lines 245-251
ParsePosition(chunk, offset) ==
  IF Len(chunk) > offset + 12
  THEN [x |-> Slice(chunk, offset, offset + 4),
        y |-> Slice(chunk, offset + 4, offset + 8),
        z |-> Slice(chunk, offset + 8, offset + 12)]
  ELSE Undefined

DecodedVoice(target, source, seqNum, end, frames, codec, position) ==
  [timestamp |-> Undefined, target |-> target, source |-> source,
   seqNum |-> seqNum, end |-> end, frames |-> frames, codec |-> codec,
   position |-> position]

\* lines 203-251: the codec-dependent part, after source and seqNum
DecodeFrames(chunk, codecId, target, source, seqNum, offset) ==
  IF codecId = 4
  THEN
    LET voiceLength == fromVarint(SliceFrom(chunk, offset))
    IN  IF voiceLength = Null THEN Rejected("invalid voice length", Undefined)
        ELSE
          LET end == BitAnd(voiceLength.value, 8192) > 0
              len == BitAnd(voiceLength.value, 8191)
              off == offset + voiceLength.length
              voice == Slice(chunk, off, off + len)
          IN  IF Len(chunk) < off + len
              THEN Rejected("not enough voice data", Undefined)
              ELSE Pushed(DecodedVoice(target, source, seqNum, end,
                            IF Len(voice) # 0 THEN <<voice>> ELSE <<>>,
                            "Opus", ParsePosition(chunk, off + len)))
  ELSE
    LET cond == CeltCondition(codecId)
    IN  IF cond = "ReferenceError" THEN Failed("ReferenceError")
        ELSE IF cond = "true"
        THEN
          LET r == CeltFrames(chunk, offset, <<>>)
          IN  IF r.reject # "" THEN Rejected(r.reject, Undefined)
              ELSE Pushed(DecodedVoice(target, source, seqNum, r.end,
                            r.frames,
                            <<"CELT_Alpha", "", "Speex", "CELT_Beta">>
                              [codecId + 1],
                            ParsePosition(chunk, r.offset)))
        ELSE Rejected("unknown codec", codecId)

\* Decoder.prototype._transform
VoiceDecoderTransform(orig, chunk) ==
  IF Len(chunk) = 0 THEN Rejected("empty", Undefined)
  ELSE
    LET codecId == Shr(chunk[1], 5)
    IN  IF codecId = 1
        THEN LET val == fromVarint(SliceFrom(chunk, 1))
             IN  IF val = Null THEN Rejected("invalid timestamp", Undefined)
                 ELSE Pushed(PingData(val.value))
        ELSE
          LET target == TargetName(BitAnd(chunk[1], 31))
              source == IF orig = "server"
                        THEN fromVarint(SliceFrom(chunk, 1)) ELSE Undefined
              off1 == IF orig = "server" /\ source # Null
                      THEN 1 + source.length ELSE 1
              sequenceNumber == fromVarint(SliceFrom(chunk, off1))
          IN  IF source = Null THEN Rejected("invalid source", Undefined)
              ELSE IF sequenceNumber = Null
              THEN Rejected("invalid sequence number", Undefined)
              ELSE DecodeFrames(chunk, codecId, target,
                                IF orig = "server" THEN source.value
                                ELSE Undefined,
                                sequenceNumber.value,
                                off1 + sequenceNumber.length)

-----------------------------------------------------------------------------
(* UdpCrypt of src/unnamed/part_001 (lib/udp-crypto.js)                    *)
(*                                                                         *)
(* AES-128 is not computed.  ocbEncrypt and ocbDecrypt are modelled as an  *)
(* ideal authenticated cipher: a ciphertext and its tag are terms over the *)
(* key, the full 16-byte nonce and the plaintext, and ocbDecrypt recovers  *)
(* the plaintext and recomputes the same tag exactly when it is given the  *)
(* key and the nonce of the encryption.                                    *)

BLOCK_SIZE == 16

\* an unwritten slot of decryptHistory (new Array(100)): undefined, which is
\* == to no byte
EmptySlot == 0 - 1

OcbTag(k, nonce, plainText) ==
  [key |-> k, nonce |-> nonce, plain |-> plainText, intact |-> TRUE]

ocbEncrypt(plainText, nonce, k) ==
  [cipherText |-> [key |-> k, nonce |-> nonce, plain |-> plainText],
   tag |-> OcbTag(k, nonce, plainText)]

\* with another key or nonce the output is unrelated bytes of the same length
ocbDecrypt(cipherText, nonce, k) ==
  LET plainText ==
        IF cipherText.key = k /\ cipherText.nonce = nonce
        THEN cipherText.plain
        ELSE [j \in 1..Len(cipherText.plain) |-> 0 - 1]
  IN  [plainText |-> plainText, tag |-> OcbTag(k, nonce, plainText)]

\* an encrypted datagram: cipherText[0], cipherText[1..3] (the tag prefix)
\* and cipherText[4..]
Datagram(ivbyte, tag, body) ==
  [length |-> Len(body.plain) + 4, ivbyte |-> ivbyte, tag |-> tag,
   body |-> body]

\* the increment without the carry: only byte i moves
IncrementOneByte(iv, i) == [iv EXCEPT ![i + 1] = (iv[i + 1] + 1) % 256]

\* lines 63-69: for (i ...) if (++encryptIV[i] == 256) encryptIV[i] = 0 else
\* break.  ++ yields the incremented number; the Buffer stores it modulo 256
RECURSIVE IncrementIV(_, _)
IncrementIV(iv, i) ==
  IF i >= BLOCK_SIZE THEN iv
  ELSE LET n == iv[i + 1] + 1
           stored == [iv EXCEPT ![i + 1] = n % 256]
       IN  IF n = 256
           THEN IncrementIV([stored EXCEPT ![i + 1] = 0], i + 1)
           ELSE stored

\* UdpCrypt.prototype.encrypt on a state with the given key and encryptIV
encrypt(k, iv, plainText) ==
  LET newIV == IncrementIV(iv, 0)
      ocb == ocbEncrypt(plainText, newIV, k)
  IN  [encryptIV |-> newIV,
       cipherText |-> Datagram(newIV[1], ocb.tag, ocb.cipherText)]

\* the carry loop with the increment, too, applied to encryptIV
CarryIntoEncryptIV(d, e, i) ==
  [decryptIV |-> d, encryptIV |-> IncrementIV(e, i)]

\* lines 102-108 and 149-155: if (++decryptIV[i] == 256) encryptIV[i] = 0
\* else break
RECURSIVE CarryLoop(_, _, _)
CarryLoop(d, e, i) ==
  IF i >= BLOCK_SIZE THEN [decryptIV |-> d, encryptIV |-> e]
  ELSE LET n == d[i + 1] + 1
           stored == [d EXCEPT ![i + 1] = n % 256]
       IN  IF n = 256
           THEN CarryLoop(stored, [e EXCEPT ![i + 1] = 0], i + 1)
           ELSE [decryptIV |-> stored, encryptIV |-> e]

\* lines 133-139: if (decryptIV[i]-- == -1) decryptIV[i] = 255 else break.
\* The postfix -- yields the byte as it was before the decrement
RECURSIVE BorrowLoop(_, _)
BorrowLoop(d, i) ==
  IF i >= BLOCK_SIZE THEN d
  ELSE LET old == d[i + 1]
           stored == [d EXCEPT ![i + 1] = (old - 1) % 256]
       IN  IF old = 0 - 1
           THEN BorrowLoop([stored EXCEPT ![i + 1] = 255], i + 1)
           ELSE stored

\* restore never set
SyncedNoRestore(path, d, e, restore, late, lost, checkHistory) ==
  [fail |-> FALSE, path |-> path, decryptIV |-> d, encryptIV |-> e,
   restore |-> FALSE, late |-> late, lost |-> lost,
   checkHistory |-> checkHistory]

Synced(path, d, e, restore, late, lost, checkHistory) ==
  [fail |-> FALSE, path |-> path, decryptIV |-> d, encryptIV |-> e,
   restore |-> restore, late |-> late, lost |-> lost,
   checkHistory |-> checkHistory]

OutOfWindow(path) == [fail |-> TRUE, path |-> path]

\* a datagram exactly 128 ahead taken to be 128 behind
DiffNarrow(ivbyte, d0) ==
  LET diff == ivbyte - d0
  IN  IF diff >= 128 THEN diff - 256
      ELSE IF diff < 0 - 128 THEN diff + 256 ELSE diff

\* lines 115-120
Diff(ivbyte, d0) ==
  LET diff == ivbyte - d0
  IN  IF diff > 128 THEN diff - 256
      ELSE IF diff < 0 - 128 THEN diff + 256 ELSE diff

\* lines 96-158: the nonce the datagram is taken to have been sent with
SyncNonce(d, e, ivbyte) ==
  LET d0 == d[1]
      set0 == [d EXCEPT ![1] = ivbyte]
      diff == Diff(ivbyte, d0)
  IN  IF BitAnd(d0 + 1, 255) = ivbyte
      THEN IF ivbyte > d0
           THEN Synced("in order", set0, e, FALSE, 0, 0, FALSE)
           ELSE IF ivbyte < d0
           THEN LET c == CarryLoop(set0, e, 1)
                IN  Synced("in order, wrapped", c.decryptIV, c.encryptIV,
                           FALSE, 0, 0, FALSE)
           ELSE OutOfWindow("in order")
      ELSE IF ivbyte < d0 /\ diff > 0 - 30 /\ diff < 0
           THEN Synced("late", set0, e, TRUE, 1, 0 - 1, TRUE)
      ELSE IF ivbyte > d0 /\ diff > 0 - 30 /\ diff < 0
           THEN Synced("late, wrapped", BorrowLoop(set0, 0), e, TRUE, 1,
                       0 - 1, TRUE)
      ELSE IF ivbyte > d0 /\ diff > 0
           THEN Synced("lost", set0, e, FALSE, 0, ivbyte - d0 - 1, TRUE)
      ELSE IF ivbyte < d0 /\ diff > 0
           THEN LET c == CarryLoop(set0, e, 0)
                IN  Synced("lost, wrapped", c.decryptIV, c.encryptIV, FALSE,
                           0, 256 - d0 + ivbyte - 1, TRUE)
      ELSE OutOfWindow("out of window")

\* the state of a UdpCrypt object that decrypt reads and writes
CryptState(k, d, e, history, st) ==
  [key |-> k, decryptIV |-> d, encryptIV |-> e, decryptHistory |-> history,
   stats |-> st]

Returned(self, result, path, outcome) ==
  [state |-> self, result |-> result, path |-> path, outcome |-> outcome]

\* the rollback left out
RestoreForgotten(self, saveiv) == self

\* the history left unwritten
HistoryUnrecorded(history, d) == history

\* lines 161 and 176: this._decryptIV = saveiv
\* (what the carry loop wrote into encryptIV stays)
RestoreIV(self, saveiv) == [self EXCEPT !.decryptIV = saveiv]

\* the history written with index and value exchanged
HistoryMisfiled(history, d) == [history EXCEPT ![d[2]] = d[1]]

\* line 179: this._decryptHistory[this._decryptIV[0]] = this._decryptIV[1]
RecordHistory(history, d) == [history EXCEPT ![d[1]] = d[2]]

\* the lost packets left uncounted
StatsGoodAndLate(st, late, lost) ==
  [good |-> st.good + 1, late |-> st.late + late, lost |-> st.lost]

\* the counters left as they were
StatsUncounted(st, late, lost) == st

\* lines 185-187: this._stats.good++, .late += late, .lost += lost
CountStats(st, late, lost) ==
  [good |-> st.good + 1, late |-> st.late + late, lost |-> st.lost + lost]

\* the history written after the saved counter was put back
AcceptRecordingRestored(self, saveiv, sync, plainText) ==
  LET restored == IF sync.restore THEN RestoreIV(self, saveiv) ELSE self
      recorded == [restored EXCEPT !.decryptHistory =
                     RecordHistory(self.decryptHistory, restored.decryptIV)]
      st == CountStats(self.stats, sync.late, sync.lost)
  IN  Returned([recorded EXCEPT !.stats = st], plainText, sync.path, "ok")

\* the saved counter put back on every path
AcceptRestoring(self, saveiv, sync, plainText) ==
  LET recorded == [self EXCEPT !.decryptHistory =
                     RecordHistory(self.decryptHistory, self.decryptIV)]
      st == CountStats(self.stats, sync.late, sync.lost)
  IN  Returned([RestoreIV(recorded, saveiv) EXCEPT !.stats = st], plainText,
               sync.path, "ok")

\* lines 179-188: the tag matched; self is the state as SyncNonce left it
Accept(self, saveiv, sync, plainText) ==
  LET recorded == [self EXCEPT !.decryptHistory =
                     RecordHistory(self.decryptHistory, self.decryptIV)]
      restored == IF sync.restore THEN RestoreIV(recorded, saveiv)
                  ELSE recorded
      st == CountStats(self.stats, sync.late, sync.lost)
  IN  Returned([restored EXCEPT !.stats = st], plainText, sync.path, "ok")

\* UdpCrypt.prototype.decrypt
decrypt(self, cipherText) ==
  IF cipherText.length < 4 THEN Returned(self, Null, "short", "short")
  ELSE
    LET saveiv == self.decryptIV
        sync == SyncNonce(self.decryptIV, self.encryptIV, cipherText.ivbyte)
    IN  IF sync.fail THEN Returned(self, Null, sync.path, "out of window")
        ELSE
          LET synced == [self EXCEPT !.decryptIV = sync.decryptIV,
                                     !.encryptIV = sync.encryptIV]
          IN  IF /\ sync.checkHistory
                 /\ synced.decryptHistory[synced.decryptIV[1]]
                      = synced.decryptIV[2]
              THEN Returned(RestoreIV(synced, saveiv), Null, sync.path,
                            "replay")
              ELSE
                LET ocb == ocbDecrypt(cipherText.body, synced.decryptIV,
                                      synced.key)
                IN  IF ocb.tag # cipherText.tag
                    THEN Returned(RestoreIV(synced, saveiv), Null, sync.path,
                                  "tag mismatch")
                    ELSE Accept(synced, saveiv, sync, ocb.plainText)

-----------------------------------------------------------------------------
(* Control channel: src/lib/data.js                                        *)

\* nameById, in id order; the ids are the positions counted from 0
Registry ==
  << "Version", "UDPTunnel", "Authenticate", "Ping", "Reject", "ServerSync",
     "ChannelRemove", "ChannelState", "UserRemove", "UserState", "BanList",
     "TextMessage", "PermissionDenied", "ACL", "QueryUsers", "CryptSetup",
     "ContextActionModify", "ContextAction", "UserList", "VoiceTarget",
     "PermissionQuery", "CodecVersion", "UserStats", "RequestBlob",
     "ServerConfig", "SuggestConfig" >>

Registered(name) == \E i \in 1..Len(Registry) : Registry[i] = name

\* nameById[id]: "undefined" for an id the registry does not hold (no
\* registered name is spelled that way)
nameById(id) ==
  IF id \in 0..(Len(Registry) - 1) THEN Registry[id + 1] ELSE "undefined"

\* idByName[name], for a registered name
idByName(name) == (CHOOSE i \in 1..Len(Registry) : Registry[i] = name) - 1

\* A payload is a Buffer (UDPTunnel) or a schema message.  The schema is
\* outside src/: a message is a sequence of varint fields, each with a field
\* number below 16 and a value below 128, which the protocol-buffer wire
\* format writes as the key byte (number << 3 | wire type 0) and the value.
BufferValue(bytes) == [bytes |-> bytes]
MessageValue(fields) == [fields |-> fields]
Field(number, value) == [number |-> number, value |-> value]
EmptyObject == MessageValue(<<>>)

RECURSIVE toBuffer(_)
toBuffer(fields) ==
  IF fields = <<>> THEN <<>>
  ELSE <<fields[1].number * 8, fields[1].value>> \o toBuffer(Tail(fields))

\* what a call that may throw returns when it does not
Value(x) == [kind |-> "value", value |-> x]

\* messages[name].decode(payload) of the same schema; Thrown for bytes that
\* are not the encoding of a message
RECURSIVE fromBuffer(_)
fromBuffer(bytes) ==
  IF bytes = <<>> THEN Value(<<>>)
  ELSE IF \/ Len(bytes) < 2
          \/ bytes[1] % 8 # 0 \/ bytes[1] \div 8 \notin 1..15
          \/ bytes[2] \notin 0..127
       THEN Thrown
       ELSE LET rest == fromBuffer(Tail(Tail(bytes)))
            IN  IF rest = Thrown THEN Thrown
                ELSE Value(<<Field(bytes[1] \div 8, bytes[2])>> \o rest.value)

\* encode(name, payload): messages[name] is undefined for an unregistered
\* name, and calling it throws
encode(name, payload) ==
  IF ~Registered(name) \/ "fields" \notin DOMAIN payload
  THEN Thrown
  ELSE Value(toBuffer(payload.fields))

\* decode(id, payload)
decode(id, payload) ==
  IF ~Registered(nameById(id)) THEN Thrown
  ELSE LET fields == fromBuffer(payload)
       IN  IF fields = Thrown THEN Thrown
           ELSE Value(MessageValue(fields.value))

\* the two bytes in the opposite order
writeUInt16LE(value) == <<value % 256, (value \div 256) % 256>>

writeUInt16BE(value) == <<(value \div 256) % 256, value % 256>>

writeUInt32BE(value) ==
  << (value \div 16777216) % 256, (value \div 65536) % 256,
     (value \div 256) % 256, value % 256 >>

\* Encoder.prototype._transform: a chunk is a record that may lack the
\* name and the payload
ControlEncoderTransform(chunk) ==
  IF "name" \notin DOMAIN chunk
  THEN Failed("chunk.name is not a string")
  ELSE LET payload == IF "payload" \in DOMAIN chunk THEN chunk.payload
                      ELSE EmptyObject
       IN  IF chunk.name = "UDPTunnel"
           THEN IF "bytes" \notin DOMAIN payload
                THEN Thrown   \* Buffer.concat of an object that is no Buffer
                ELSE Pushed(writeUInt16BE(idByName(chunk.name))
                            \o writeUInt32BE(Len(payload.bytes))
                            \o payload.bytes)
           ELSE LET data == encode(chunk.name, payload)
                IN  IF data = Thrown THEN Failed("encode")
                    ELSE Pushed(writeUInt16BE(idByName(chunk.name))
                                \o writeUInt32BE(Len(data.value))
                                \o data.value)

\* new Buffer(n): n bytes of uninitialised memory
Uninitialised == 0 - 1
NewBuffer(n) == [i \in 1..n |-> Uninitialised]

\* the length of the Decoder's first buffer
InitialBufferLength == 1024

\* source.copy(target, targetStart, sourceStart, sourceEnd): the number of
\* bytes copied, and the target afterwards (the copy is a memmove)
CopyCount(source, target, targetStart, sourceStart, sourceEnd) ==
  LET wanted == sourceEnd - sourceStart
      room == Len(target) - targetStart
  IN  IF wanted <= 0 \/ room <= 0 THEN 0
      ELSE IF wanted < room THEN wanted ELSE room

Copy(source, target, targetStart, sourceStart, sourceEnd) ==
  LET n == CopyCount(source, target, targetStart, sourceStart, sourceEnd)
  IN  SubSeq(target, 1, targetStart)
      \o SubSeq(source, sourceStart + 1, sourceStart + n)
      \o SubSeq(target, targetStart + n + 1, Len(target))

readUInt16BE(b, offset) == b[offset + 1] * 256 + b[offset + 2]

readUInt32BE(b, offset) ==
  Wide(readUInt16BE(b, offset), readUInt16BE(b, offset + 2))

\* this._bufferSize < 6 + size
NotEnoughBytes(bufferSize, size) ==
  IF size.hi > 32766 THEN TRUE
  ELSE bufferSize < 6 + size.hi * 65536 + size.lo

DecoderState(buffer, bufferSize) ==
  [buffer |-> buffer, bufferSize |-> bufferSize]

\* what one _transform call leaves: the decoder, the objects pushed, and
\* whether the callback got an error
ControlDecoded(self, pushed, error) ==
  [self |-> self, pushed |-> pushed, error |-> error]

KeepBuffer(buffer, bufferSize, chunk) == buffer

\* the buffer after "Old buffer is too small, replace with bigger one"
GrowBuffer(buffer, bufferSize, chunk) ==
  IF Len(buffer) - bufferSize < Len(chunk)
  THEN Copy(buffer, NewBuffer(bufferSize + Len(chunk)), 0, 0, bufferSize)
  ELSE buffer

ShiftNothing(buffer, size, bufferSize) == buffer

\* "Shift remaining bytes to start of internal buffer"
ShiftRemaining(buffer, size, bufferSize) ==
  Copy(buffer, buffer, 0, 6 + size, bufferSize)

\* the while loop of Decoder.prototype._transform
RECURSIVE DecodeLoop(_, _)
DecodeLoop(self, pushed) ==
  IF self.bufferSize < 6 THEN ControlDecoded(self, pushed, FALSE)
  ELSE
    LET type == readUInt16BE(self.buffer, 0)
        wsize == readUInt32BE(self.buffer, 2)
    IN  IF NotEnoughBytes(self.bufferSize, wsize)
        THEN ControlDecoded(self, pushed, FALSE)
        ELSE
          LET size == wsize.hi * 65536 + wsize.lo
              typeName == nameById(type)
              data == Slice(self.buffer, 6, 6 + size)
              message == IF typeName = "UDPTunnel"
                         THEN Value(BufferValue(data))
                         ELSE decode(type, data)
          IN  IF message = Thrown
              THEN ControlDecoded(self, pushed, TRUE)
              ELSE DecodeLoop(
                     DecoderState(
                       ShiftRemaining(self.buffer, size, self.bufferSize),
                       self.bufferSize - (6 + size)),
                     Append(pushed, [name |-> typeName,
                                     payload |-> message.value]))

\* Decoder.prototype._transform
ControlDecoderTransform(self, chunk) ==
  LET buffer == GrowBuffer(self.buffer, self.bufferSize, chunk)
      filled == Copy(chunk, buffer, self.bufferSize, 0, Len(chunk))
      bufferSize == self.bufferSize
                    + CopyCount(chunk, buffer, self.bufferSize, 0, Len(chunk))
  IN  DecodeLoop(DecoderState(filled, bufferSize), <<>>)

-----------------------------------------------------------------------------
(* Values the variables of a component hold while another one is checked   *)

VarintIdle ==
  /\ vin = Wide(0, 0) /\ venc = Null /\ vdec = Null /\ vpc = "idle"

VoiceIdle ==
  /\ vdest = "server" /\ vorig = "client" /\ vpacket = Null /\ vwire = Null
  /\ vchunk = <<>> /\ vout = Null /\ voicepc = "idle"

CryptIdle ==
  /\ key = "unset" /\ sEncryptIV = <<>> /\ decryptIV = <<>>
  /\ encryptIV = <<>> /\ decryptHistory = <<>> /\ stats = Null
  /\ net = <<>> /\ delivered = 0 /\ inOrder = TRUE /\ lastCall = Null
  /\ accepted = <<>>

CtlIdle ==
  /\ csent = <<>> /\ cwire = <<>> /\ cbuffer = <<>> /\ cbufferSize = 0
  /\ cemitted = <<>> /\ cerror = FALSE /\ cfed = 0 /\ cchunks = 0
  /\ cencoded = Null

-----------------------------------------------------------------------------
(* Varint harness: one number is encoded, the bytes are decoded            *)

\* how far around each boundary value the inputs reach
Spread == 2

WPlus(w, d) ==
  LET t == w.lo + d IN Wide(w.hi + (t \div 65536), t % 65536)

\* 0, 0x80, 0x4000, 0x200000, 0x10000000, 2^31, 2^32, -5, -(2^31)
VarintBoundaries ==
  { Wide(0, 0), Wide(0, 128), Wide(0, 16384), Wide(32, 0), Wide(4096, 0),
    Wide(32768, 0), Wide(65536, 0), Wide(-1, 65531), Wide(-32768, 0) }

VarintInputs ==
  { w \in { WPlus(b, d) : b \in VarintBoundaries, d \in (0 - Spread)..Spread } :
      ~WLess(w, Wide(-32768, 0)) }

InitVarint ==
  /\ vin \in VarintInputs /\ venc = Null /\ vdec = Null /\ vpc = "input"
  /\ VoiceIdle /\ CryptIdle /\ CtlIdle

VarintEncode ==
  /\ vpc = "input"
  /\ venc' = toVarint(vin)
  /\ vpc' = "encoded"
  /\ UNCHANGED <<vin, vdec, voiceVars, cryptVars, ctlVars>>

VarintDecode ==
  /\ vpc = "encoded"
  /\ venc.shape # "throw"
  /\ vdec' = fromVarint(VarintBytes(venc))
  /\ vpc' = "decoded"
  /\ UNCHANGED <<vin, venc, voiceVars, cryptVars, ctlVars>>

NextVarint == VarintEncode \/ VarintDecode

SpecVarint == InitVarint /\ [][NextVarint]_vars

\* C10: for every i with -(2^31) <= i < 2^32, fromVarint(toVarint(i)) returns
\* the value i and a consumed length equal to the number of bytes produced
C10_VarintRoundTrip ==
  vpc = "decoded" =>
    /\ vdec # Null
    /\ WFromInt(vdec.value) = vin
    /\ vdec.length = Len(VarintBytes(venc))

-----------------------------------------------------------------------------
(* Voice harness: packets are written to an Encoder whose output is piped  *)
(* into a Decoder, and raw datagrams are written to the Decoder            *)

\* most frames in a packet, and the longest raw datagram
MaxFrames == 2
MaxRawLen == 3

\* n bytes, all equal to x
Fill(n, x) == [k \in 1..n |-> x]

\* frames of length 0, 1, 1, 127, 128 and 8191
FrameSet ==
  { <<>>, <<17>>, <<34>>, Fill(127, 85), Fill(128, 102), Fill(8191, 119) }

RECURSIVE SeqsUpTo(_, _)
SeqsUpTo(S, n) ==
  IF n = 0 THEN { <<>> }
  ELSE LET shorter == SeqsUpTo(S, n - 1)
       IN  shorter \cup { Append(q, x) : q \in shorter, x \in S }

\* the floats 1.0, 2.0 and -1.5
PositionSet ==
  { Undefined,
    [x |-> <<63, 128, 0, 0>>, y |-> <<64, 0, 0, 0>>, z |-> <<191, 192, 0, 0>>] }

VoicePackets ==
  { VoiceData(c, m, Wide(0, 7), n, e, f, pos) :
      c \in {"Opus", "CELT_Alpha", "CELT_Beta", "Speex", "Unknown"},
      m \in {0, 31}, n \in {Wide(0, 0), Wide(0, 300)}, e \in BOOLEAN,
      f \in SeqsUpTo(FrameSet, MaxFrames), pos \in PositionSet }

PingPackets == { PingData(t) : t \in VarintInputs }

RawBytes == {0, 1, 32, 64, 128, 129, 160, 240, 248, 255}
RawChunks == SeqsUpTo(RawBytes, MaxRawLen)

\* the Decoder at the other end of the Encoder's link
Peer(dest) == IF dest = "client" THEN "server" ELSE "client"

\* one input is pending: a packet for the Encoder or a datagram for the Decoder
InitVoice ==
  /\ vdest \in {"server", "client"} /\ vorig = Peer(vdest)
  /\ \/ /\ vpacket \in VoicePackets \cup PingPackets
        /\ vchunk = <<>> /\ voicepc = "packet"
     \/ /\ vpacket = Null
        /\ vchunk \in RawChunks /\ voicepc = "datagram"
  /\ vwire = Null /\ vout = Null
  /\ VarintIdle /\ CryptIdle /\ CtlIdle

\* encoder.write(packet)
VoiceEncode ==
  /\ voicepc = "packet"
  /\ vwire' = VoiceEncoderTransform(vdest, vpacket)
  /\ voicepc' = "encoded"
  /\ UNCHANGED <<vdest, vorig, vpacket, vchunk, vout,
                 varintVars, cryptVars, ctlVars>>

\* the chunk the encoder pushed reaches the piped decoder
VoicePipe ==
  /\ voicepc = "encoded"
  /\ vwire.kind = "data"
  /\ vchunk' = vwire.data
  /\ vout' = VoiceDecoderTransform(vorig, vwire.data)
  /\ voicepc' = "decoded"
  /\ UNCHANGED <<vdest, vorig, vpacket, vwire, varintVars, cryptVars, ctlVars>>

\* decoder.write(chunk) with a datagram from the network
VoiceDecodeRaw ==
  /\ voicepc = "datagram"
  /\ vout' = VoiceDecoderTransform(vorig, vchunk)
  /\ voicepc' = "raw"
  /\ UNCHANGED <<vdest, vorig, vpacket, vwire, vchunk,
                 varintVars, cryptVars, ctlVars>>

NextVoice == VoiceEncode \/ VoicePipe \/ VoiceDecodeRaw

SpecVoice == InitVoice /\ [][NextVoice]_vars

\* C7: for every byte string the voice Decoder never surfaces an error: it
\* emits one decoded packet, or one debug diagnostic and no packet
C7_DecoderNeverErrors ==
  voicepc \in {"raw", "decoded"} => vout.kind \in {"data", "debug"}

\* the packet written to the Encoder is a valid Opus voice packet: zero or
\* one frame of 1 to 8191 bytes
ValidOpus ==
  /\ vpacket # Null /\ vpacket.timestamp = Undefined
  /\ vpacket.codec = "Opus" /\ Len(vpacket.frames) <= 1
  /\ \A i \in 1..Len(vpacket.frames) :
       Len(vpacket.frames[i]) \in 1..8191

\* the packet written to the Encoder is a valid CELT/Speex voice packet:
\* frames of 1 to 127 bytes, at least one frame unless end is set
ValidCelt ==
  /\ vpacket # Null /\ vpacket.timestamp = Undefined
  /\ vpacket.codec \in {"CELT_Alpha", "CELT_Beta", "Speex"}
  /\ \A i \in 1..Len(vpacket.frames) : Len(vpacket.frames[i]) \in 1..127
  /\ (Len(vpacket.frames) = 0 => vpacket.end)

\* C8: for every valid Opus voice packet and each direction pairing,
\* decoding the encoder's output yields the same codec, seqNum, end, frames,
\* position and (when carried) source
C8_OpusRoundTrip ==
  ValidOpus =>
    /\ voicepc = "encoded" => vwire.kind = "data"
    /\ voicepc = "decoded" =>
         /\ vout.kind = "data"
         /\ vout.data.codec = vpacket.codec
         /\ WFromInt(vout.data.seqNum) = vpacket.seqNum
         /\ vout.data.end = vpacket.end
         /\ vout.data.frames = vpacket.frames
         /\ vout.data.position = vpacket.position
         /\ (vorig = "server" => WFromInt(vout.data.source) = vpacket.source)

\* C9: for every valid CELT_Alpha, CELT_Beta or Speex voice packet, decoding
\* the encoder's output with the matching decoder yields the same codec
\* name, the same ordered list of frames and the same end flag
C9_CeltRoundTrip ==
  ValidCelt =>
    /\ voicepc = "encoded" => vwire.kind = "data"
    /\ voicepc = "decoded" =>
         /\ vout.kind = "data"
         /\ vout.data.codec = vpacket.codec
         /\ vout.data.frames = vpacket.frames
         /\ vout.data.end = vpacket.end

-----------------------------------------------------------------------------
(* Crypto harness: a sender S encrypts, a receiver R with the same key     *)
(* decrypts what the network hands it.  net keeps every datagram S has     *)
(* produced, in order, so the network may drop, reorder and duplicate; it  *)
(* may also damage a tag or cut a datagram short.                          *)

\* datagrams S may send, and decrypt calls R may make
MaxSends == 3
MaxDecrypts == 4

TheKey == "key"

\* "Hello" and the empty plaintext
Plaintexts == { <<72, 101, 108, 108, 111>>, <<>> }

\* counters 3 steps before the low byte wraps: no carry beyond byte 1, a
\* carry into byte 2, and a carry through every byte (2^128 - 3); and zero
StartIVs ==
  { [j \in 1..BLOCK_SIZE |-> 0],
    [j \in 1..BLOCK_SIZE |-> IF j = 1 THEN 253 ELSE IF j = 2 THEN 4 ELSE 0],
    [j \in 1..BLOCK_SIZE |-> IF j = 1 THEN 253 ELSE IF j = 2 THEN 255 ELSE 0],
    [j \in 1..BLOCK_SIZE |-> IF j = 1 THEN 253 ELSE 255] }

\* R's own encryptIV: a counter of its own, unrelated to S
ReceiverEncryptIV == [j \in 1..BLOCK_SIZE |-> 9]

InitCrypt ==
  /\ key = TheKey
  /\ sEncryptIV \in StartIVs
  /\ decryptIV = sEncryptIV
  /\ encryptIV = ReceiverEncryptIV
  /\ decryptHistory = [b \in Byte |-> EmptySlot]
  /\ stats = [good |-> 0, late |-> 0, lost |-> 0]
  /\ net = <<>> /\ delivered = 0 /\ inOrder = TRUE
  /\ lastCall = [op |-> "none"] /\ accepted = <<>>
  /\ VarintIdle /\ VoiceIdle /\ CtlIdle

Receiver == CryptState(key, decryptIV, encryptIV, decryptHistory, stats)

\* S.encrypt(plainText); the datagram goes to the network
Encrypt ==
  \E plainText \in Plaintexts :
    /\ Len(net) < MaxSends
    /\ LET r == encrypt(key, sEncryptIV, plainText)
       IN  /\ sEncryptIV' = r.encryptIV
           /\ net' = Append(net, r.cipherText)
           /\ lastCall' = [op |-> "encrypt", plainText |-> plainText,
                           result |-> r.cipherText, pre |-> sEncryptIV]
    /\ UNCHANGED <<key, decryptIV, encryptIV, decryptHistory, stats,
                   delivered, inOrder, accepted, varintVars, voiceVars,
                   ctlVars>>

\* R.decrypt(cipherText)
Decrypt(cipherText, ordered) ==
  /\ delivered < MaxDecrypts
  /\ LET r == decrypt(Receiver, cipherText)
     IN  /\ decryptIV' = r.state.decryptIV
         /\ encryptIV' = r.state.encryptIV
         /\ decryptHistory' = r.state.decryptHistory
         /\ stats' = r.state.stats
         /\ key' = r.state.key
         /\ lastCall' = [op |-> "decrypt", cipherText |-> cipherText,
                         result |-> r.result, path |-> r.path,
                         outcome |-> r.outcome, pre |-> Receiver]
         /\ accepted' = IF r.outcome = "ok"
                         THEN Append(accepted, cipherText.body.nonce)
                         ELSE accepted
  /\ delivered' = delivered + 1
  /\ inOrder' = (inOrder /\ ordered)
  /\ UNCHANGED <<sEncryptIV, net, varintVars, voiceVars, ctlVars>>

\* the network delivers one of the datagrams S has sent
Deliver == \E i \in 1..Len(net) : Decrypt(net[i], i = delivered + 1)

\* the network delivers a datagram whose tag bytes were damaged
DeliverDamaged ==
  \E i \in 1..Len(net) :
    Decrypt([net[i] EXCEPT !.tag.intact = FALSE], FALSE)

\* the network delivers the first 0 or 3 bytes of the latest datagram
DeliverShort ==
  \E n \in {0, 3} :
    /\ net # <<>>
    /\ Decrypt([net[Len(net)] EXCEPT !.length = n], FALSE)

NextCrypt == Encrypt \/ Deliver \/ DeliverDamaged \/ DeliverShort

SpecCrypt == InitCrypt /\ [][NextCrypt]_vars

\* the 128-bit little-endian counter value plus 1, modulo 2^128: the
\* leading run of 255s becomes 0 and the byte after it goes up by one
LeadingFF(iv) ==
  CHOOSE k \in 0..BLOCK_SIZE :
    /\ \A j \in 1..k : iv[j] = 255
    /\ (k = BLOCK_SIZE \/ iv[k + 1] # 255)

PlusOne(iv) ==
  LET k == LeadingFF(iv)
  IN  [j \in 1..BLOCK_SIZE |->
         IF j <= k THEN 0 ELSE IF j = k + 1 THEN iv[j] + 1 ELSE iv[j]]

\* C1: when R decrypts what S encrypted, in the same order with nothing
\* lost, each decrypt returns the plaintext that was encrypted and leaves
\* R.decryptIV equal to the S.encryptIV of that encryption (to S.encryptIV
\* itself once R has caught up), also across a wrap of the low byte with
\* carry into higher bytes
C1_InOrderRoundTrip ==
  (lastCall.op = "decrypt" /\ inOrder) =>
    /\ lastCall.outcome = "ok"
    /\ lastCall.result = net[delivered].body.plain
    /\ decryptIV = net[delivered].body.nonce
    /\ (delivered = Len(net) => decryptIV = sEncryptIV)

C1_Witness ==
  /\ lastCall.op = "decrypt" /\ inOrder /\ lastCall.outcome = "ok"
  /\ lastCall.path = "in order, wrapped"
  /\ lastCall.pre.decryptIV[2] = 255
  /\ decryptIV[3] = lastCall.pre.decryptIV[3] + 1

\* C2: whenever R.decrypt(c) succeeds, calling R.decrypt(c) again
\* immediately afterwards returns null
C2_ReplayFails ==
  (lastCall.op = "decrypt" /\ lastCall.outcome = "ok") =>
    decrypt(Receiver, lastCall.cipherText).result = Null

C2_Witness ==
  /\ lastCall.op = "decrypt" /\ lastCall.outcome = "ok"
  /\ lastCall.path = "late"
  /\ decrypt(Receiver, lastCall.cipherText).outcome = "replay"

\* C3: every decrypt call that fails leaves decryptIV byte-for-byte equal
\* to its value before the call
C3_FailureKeepsDecryptIV ==
  (lastCall.op = "decrypt" /\ lastCall.outcome # "ok") =>
    /\ lastCall.result = Null
    /\ decryptIV = lastCall.pre.decryptIV

C3_Witness ==
  /\ lastCall.op = "decrypt" /\ lastCall.outcome = "tag mismatch"
  /\ lastCall.path = "in order, wrapped"
  /\ decryptIV = lastCall.pre.decryptIV

\* C4: each encrypt call succeeds, adds exactly 1 to encryptIV as a 128-bit
\* little-endian counter (wrapping from 2^128-1 to 0) and returns a
\* datagram of length |plaintext|+4 whose first byte is the new encryptIV[0]
C4_EncryptIncrements ==
  lastCall.op = "encrypt" =>
    /\ sEncryptIV = PlusOne(lastCall.pre)
    /\ lastCall.result.length = Len(lastCall.plainText) + 4
    /\ lastCall.result.ivbyte = sEncryptIV[1]

C4_Witness ==
  /\ lastCall.op = "encrypt"
  /\ \A j \in 1..BLOCK_SIZE : lastCall.pre[j] = 255
  /\ \A j \in 1..BLOCK_SIZE : sEncryptIV[j] = 0

-----------------------------------------------------------------------------
(* Control harness: messages are encoded onto one byte stream, and the     *)
(* stream reaches the Decoder cut into chunks                              *)

MaxMsgs == 2
MaxChunks == 3

\* a payload longer than the Decoder's first buffer
LongPayload == [i \in 1..(InitialBufferLength + 6) |-> i % 251]

ControlMessages ==
  { [name |-> "Ping", payload |-> MessageValue(<<Field(1, 5)>>)],
    [name |-> "Version"],
    [name |-> "SuggestConfig",
     payload |-> MessageValue(<<Field(1, 1), Field(2, 0)>>)],
    [name |-> "UDPTunnel", payload |-> BufferValue(<<0, 1, 2>>)],
    [name |-> "UDPTunnel", payload |-> BufferValue(LongPayload)],
    [name |-> "Bogus", payload |-> EmptyObject],
    [payload |-> EmptyObject] }

\* chunk lengths the transport may deliver, besides all that is pending
CutSizes == {1, 5, 6, 7, InitialBufferLength + 1}

InitControl ==
  /\ VarintIdle /\ VoiceIdle /\ CryptIdle
  /\ csent = <<>> /\ cwire = <<>>
  /\ cbuffer = NewBuffer(InitialBufferLength) /\ cbufferSize = 0
  /\ cemitted = <<>> /\ cerror = FALSE /\ cfed = 0 /\ cchunks = 0
  /\ cencoded = Null

\* Encoder.write(chunk): what it pushes joins the stream
ControlEncode ==
  /\ Len(csent) < MaxMsgs
  /\ \E chunk \in ControlMessages :
       LET r == ControlEncoderTransform(chunk)
       IN  IF r.kind = "data"
           THEN csent' = Append(csent, chunk) /\ cwire' = cwire \o r.data
           ELSE UNCHANGED <<csent, cwire>>
  /\ UNCHANGED <<cbuffer, cbufferSize, cemitted, cerror, cfed, cchunks,
                 cencoded>>
  /\ UNCHANGED <<varintVars, voiceVars, cryptVars>>

\* Decoder.write(chunk) with the next n bytes of the stream
ControlFeed ==
  /\ cwire # <<>> /\ cchunks < MaxChunks /\ ~cerror
  /\ \E n \in CutSizes \cup {Len(cwire)} :
       /\ n <= Len(cwire)
       /\ LET r == ControlDecoderTransform(DecoderState(cbuffer, cbufferSize),
                                           SubSeq(cwire, 1, n))
          IN  /\ cbuffer' = r.self.buffer
              /\ cbufferSize' = r.self.bufferSize
              /\ cemitted' = cemitted \o r.pushed
              /\ cerror' = r.error
       /\ cwire' = SubSeq(cwire, n + 1, Len(cwire))
       /\ cfed' = cfed + n
  /\ cchunks' = cchunks + 1
  /\ UNCHANGED <<csent, cencoded>>
  /\ UNCHANGED <<varintVars, voiceVars, cryptVars>>

NextControl == ControlEncode \/ ControlFeed

SpecControl == InitControl /\ [][NextControl]_vars

\* what the Decoder is expected to emit for an encoded message
Expected(chunk) ==
  [name |-> chunk.name,
   payload |-> IF "payload" \in DOMAIN chunk THEN chunk.payload
               ELSE EmptyObject]

\* C5: whatever the cuts, the Decoder emits the encoded messages one per
\* frame, in the order they were encoded, each with its name and an equal
\* payload; once the whole stream has been fed every message has been
\* emitted, and no error is reported
C5_StreamRoundTrip ==
  /\ ~cerror
  /\ Len(cemitted) <= Len(csent)
  /\ \A i \in 1..Len(cemitted) : cemitted[i] = Expected(csent[i])
  /\ cwire = <<>> => Len(cemitted) = Len(csent)

\* two frames arrived in two chunks, one of them longer than the first
\* buffer, so a cut fell inside a frame, and both messages came out
C5_Witness ==
  /\ cwire = <<>> /\ cchunks = 2 /\ Len(cemitted) = 2
  /\ Len(cbuffer) > InitialBufferLength
  /\ \E i \in 1..2 : cemitted[i].name # "UDPTunnel"

\* the byte stream of the encoded messages, and the length of its frames
RECURSIVE Stream(_)
Stream(msgs) ==
  IF msgs = <<>> THEN <<>>
  ELSE ControlEncoderTransform(msgs[1]).data \o Stream(Tail(msgs))

FramesLength(k) == Len(Stream(SubSeq(csent, 1, k)))

\* the number of frames that lie completely inside the first n bytes
FramesInside(n) ==
  CHOOSE k \in 0..Len(csent) :
    /\ FramesLength(k) <= n
    /\ k < Len(csent) => FramesLength(k + 1) > n

\* C6: after any prefix of the stream the Decoder has emitted exactly the
\* frames that lie completely inside the prefix, it retains exactly the
\* rest of the prefix (fewer than 6 bytes, or a header and less than the
\* payload it declares), and _bufferSize is at most the buffer's length
C6_RetainsUnconsumedTail ==
  LET k == FramesInside(cfed)
      consumed == FramesLength(k)
  IN  /\ Len(cemitted) = k
      /\ cbufferSize <= Len(cbuffer)
      /\ cbufferSize = cfed - consumed
      /\ SubSeq(cbuffer, 1, cbufferSize)
           = SubSeq(Stream(csent), consumed + 1, cfed)
      /\ \/ cbufferSize < 6
         \/ NotEnoughBytes(cbufferSize, readUInt32BE(cbuffer, 2))

\* a frame has been emitted and a header with part of a payload longer
\* than the first buffer is retained in a buffer that had to grow
C6_Witness ==
  /\ Len(cemitted) >= 1 /\ cbufferSize > InitialBufferLength
  /\ Len(cbuffer) = cbufferSize /\ cwire # <<>>

\* C11: a decrypt call that fails changes neither decryptHistory nor the
\* stats counters; a call that returns plaintext adds exactly 1 to
\* stats.good; and no other call changes the counters or the history
C11_FailureKeepsHistoryAndStats ==
  /\ (lastCall.op = "decrypt" /\ lastCall.outcome # "ok") =>
       /\ decryptHistory = lastCall.pre.decryptHistory
       /\ stats = lastCall.pre.stats
  /\ (lastCall.op = "decrypt" /\ lastCall.outcome = "ok") =>
       /\ lastCall.result # Null
       /\ stats.good = lastCall.pre.stats.good + 1
  /\ stats.good <= delivered

\* a replayed late datagram is refused after the counters and the history
\* have been written by earlier calls
C11_Witness ==
  /\ lastCall.op = "decrypt" /\ lastCall.outcome = "replay"
  /\ stats.good = 2 /\ stats.late = 1
  /\ \E b \in Byte : decryptHistory[b] # EmptySlot
  /\ stats = lastCall.pre.stats

-----------------------------------------------------------------------------
(* Control harness with frames the Decoder cannot decode: the peer may     *)
(* put a complete frame on the stream whose type id is not registered or   *)
(* whose payload is not an encoding of its schema.  The stream keeps       *)
(* taking chunks after it has reported an error.                           *)

\* type id 26 with a payload of one byte, and a Ping (id 3) whose only
\* field lacks its value
BadFrames ==
  { <<0, 26, 0, 0, 0, 1, 0>>, <<0, 3, 0, 0, 0, 1, 8>> }

\* the peer writes a frame of its own making
ControlInject ==
  /\ Len(csent) < MaxMsgs
  /\ \E frame \in BadFrames :
       /\ csent' = Append(csent, [raw |-> frame])
       /\ cwire' = cwire \o frame
  /\ UNCHANGED <<cbuffer, cbufferSize, cemitted, cerror, cfed, cchunks,
                 cencoded>>
  /\ UNCHANGED <<varintVars, voiceVars, cryptVars>>

\* Decoder.write(chunk), also after an error
ControlFeedOn ==
  /\ cwire # <<>> /\ cchunks < MaxChunks
  /\ \E n \in CutSizes \cup {Len(cwire)} :
       /\ n <= Len(cwire)
       /\ LET r == ControlDecoderTransform(DecoderState(cbuffer, cbufferSize),
                                           SubSeq(cwire, 1, n))
          IN  /\ cbuffer' = r.self.buffer
              /\ cbufferSize' = r.self.bufferSize
              /\ cemitted' = cemitted \o r.pushed
              /\ cerror' = r.error
       /\ cwire' = SubSeq(cwire, n + 1, Len(cwire))
       /\ cfed' = cfed + n
  /\ cchunks' = cchunks + 1
  /\ UNCHANGED <<csent, cencoded>>
  /\ UNCHANGED <<varintVars, voiceVars, cryptVars>>

NextControlRaw == ControlEncode \/ ControlInject \/ ControlFeedOn

SpecControlRaw == InitControl /\ [][NextControlRaw]_vars

\* the messages among what was put on the stream, as the Decoder is
\* expected to emit them
RECURSIVE ExpectedOf(_)
ExpectedOf(msgs) ==
  IF msgs = <<>> THEN <<>>
  ELSE IF "name" \in DOMAIN msgs[1]
       THEN <<Expected(msgs[1])>> \o ExpectedOf(Tail(msgs))
       ELSE ExpectedOf(Tail(msgs))

\* C12: a complete frame with an unregistered type id, or with a payload
\* the schema cannot decode, is removed from the buffer and the frames
\* after it are emitted: once the whole stream has been fed, every encoded
\* message has been emitted and no byte is retained
C12_BadFrameDrained ==
  cwire = <<>> => /\ cemitted = ExpectedOf(csent)
                  /\ cbufferSize = 0

-----------------------------------------------------------------------------
(* Encoder harness: one message at a time is written to a control Encoder  *)
(* and what the Encoder hands to its callback is kept in cencoded          *)

SchemaPayloads ==
  { EmptyObject,
    MessageValue(<<Field(1, 5)>>),
    MessageValue(<<Field(1, 1), Field(2, 0)>>),
    MessageValue(<<Field(15, 127)>>) }

TunnelPayloads ==
  { BufferValue(<<>>),
    BufferValue(<<0, 1, 2, 3, 4, 5, 6, 7>>),
    BufferValue(Fill(300, 255)),
    BufferValue(LongPayload) }

\* every registered name with a payload of its kind or with none, names
\* the registry does not hold, and a chunk without a name
EncoderInputs ==
  { [name |-> Registry[i], payload |-> p] :
      i \in 1..Len(Registry) \ {2}, p \in SchemaPayloads }
  \cup { [name |-> Registry[i]] : i \in 1..Len(Registry) }
  \cup { [name |-> "UDPTunnel", payload |-> p] : p \in TunnelPayloads }
  \cup { [name |-> "Bogus", payload |-> EmptyObject], [name |-> "ping"],
         [payload |-> EmptyObject] }

\* Encoder.write(chunk)
ControlWrite ==
  /\ \E chunk \in EncoderInputs :
       cencoded' = [chunk |-> chunk,
                    result |-> ControlEncoderTransform(chunk)]
  /\ UNCHANGED <<csent, cwire, cbuffer, cbufferSize, cemitted, cerror, cfed,
                 cchunks>>
  /\ UNCHANGED <<varintVars, voiceVars, cryptVars>>

NextEncoder == ControlWrite

SpecEncoder == InitControl /\ [][NextEncoder]_vars

\* the id the registry order gives a name: Version 0, ..., SuggestConfig 25
RegistryId(name) == CHOOSE id \in 0..25 : Registry[id + 1] = name

\* a payload of the kind the name takes: bytes for UDPTunnel, a schema
\* message (or nothing, which stands for the empty message) otherwise
PayloadOfKind(chunk) ==
  IF chunk.name = "UDPTunnel"
  THEN "payload" \in DOMAIN chunk /\ "bytes" \in DOMAIN chunk.payload
  ELSE "payload" \in DOMAIN chunk => "fields" \in DOMAIN chunk.payload

\* C13: for a registered name and a payload the Encoder emits one chunk:
\* the type id (the position in the registry, from 0) as u16 big-endian,
\* the payload length N as u32 big-endian, then exactly N payload bytes,
\* which for UDPTunnel are the payload itself; for a name that is not in
\* the registry it reports an error and emits nothing
C13_EncoderFrame ==
  (cencoded # Null /\ "name" \in DOMAIN cencoded.chunk) =>
    LET chunk == cencoded.chunk
        r == cencoded.result
    IN  /\ (Registered(chunk.name) /\ PayloadOfKind(chunk)) =>
             /\ r.kind = "data"
             /\ Len(r.data) >= 6
             /\ r.data[1] * 256 + r.data[2] = RegistryId(chunk.name)
             /\ chunk.name = "Ping" => r.data[2] = 3
             /\ <<r.data[3], r.data[4]>> = <<0, 0>>
             /\ r.data[5] * 256 + r.data[6] = Len(r.data) - 6
             /\ chunk.name = "UDPTunnel" =>
                  SubSeq(r.data, 7, Len(r.data)) = chunk.payload.bytes
             /\ chunk.name # "UDPTunnel" =>
                  fromBuffer(SubSeq(r.data, 7, Len(r.data)))
                    = Value(Expected(chunk).payload.fields)
        /\ ~Registered(chunk.name) => r.kind = "error"

\* a UDPTunnel payload of 300 bytes came out behind 00 01 00 00 01 2C
C13_Witness ==
  /\ cencoded # Null
  /\ cencoded.chunk = [name |-> "UDPTunnel",
                       payload |-> BufferValue(Fill(300, 255))]
  /\ cencoded.result.kind = "data"
  /\ SubSeq(cencoded.result.data, 1, 6) = <<0, 1, 0, 0, 1, 44>>
  /\ Len(cencoded.result.data) = 306

-----------------------------------------------------------------------------
(* Voice Encoder harness: packets are written to one Encoder one after the *)
(* other; vwire is what the last write handed to the callback and vout     *)
(* tells how the write before it ended                                     *)

\* frames of 1, 127 and 128 bytes
EncoderFrames == { <<17>>, Fill(127, 85), Fill(128, 102) }

EncoderPackets ==
  { VoiceData(c, 0, Wide(0, 7), Wide(0, 300), e, f, Undefined) :
      c \in {"Opus", "CELT_Alpha", "CELT_Beta", "Speex", "Unknown"},
      e \in BOOLEAN, f \in SeqsUpTo(EncoderFrames, MaxFrames) }
  \cup { PingData(Wide(0, 1)) }

InitVoiceEncoder ==
  /\ vdest \in {"server", "client"} /\ vorig = Peer(vdest)
  /\ vpacket = Null /\ vchunk = <<>> /\ vwire = Null
  /\ vout = [kind |-> "none"] /\ voicepc = "idle"
  /\ VarintIdle /\ CryptIdle /\ CtlIdle

\* encoder.write(packet)
VoiceWrite ==
  /\ \E packet \in EncoderPackets :
       /\ vpacket' = packet
       /\ vwire' = VoiceEncoderTransform(vdest, packet)
  /\ vout' = IF voicepc = "idle" THEN vout ELSE [kind |-> vwire.kind]
  /\ voicepc' = "written"
  /\ UNCHANGED <<vdest, vorig, vchunk, varintVars, cryptVars, ctlVars>>

NextVoiceEncoder == VoiceWrite

SpecVoiceEncoder == InitVoiceEncoder /\ [][NextVoiceEncoder]_vars

\* the packets the Encoder has to refuse
Refused(packet) ==
  /\ packet.timestamp = Undefined
  /\ \/ packet.codec = "Opus" /\ Len(packet.frames) > 1
     \/ /\ packet.codec \in {"CELT_Alpha", "CELT_Beta", "Speex"}
        /\ \/ Len(packet.frames) = 0 /\ ~packet.end
           \/ \E i \in 1..Len(packet.frames) : Len(packet.frames[i]) > 127
     \/ packet.codec \notin {"Opus", "CELT_Alpha", "CELT_Beta", "Speex"}

\* C14: an Opus packet with more than one frame, a CELT/Speex packet with
\* no frames and end false, a CELT/Speex frame longer than 127 bytes and an
\* unknown codec name each end in an error handed to the callback and no
\* bytes; a packet that is none of these, written after such an error, is
\* encoded as a fresh Encoder encodes it
C14_EncoderErrors ==
  voicepc = "written" =>
    /\ (vpacket.timestamp = Undefined /\ Refused(vpacket)) =>
         vwire.kind = "error"
    /\ (vout.kind = "error"
          /\ (vpacket.timestamp # Undefined \/ ~Refused(vpacket))) =>
         /\ vwire.kind = "data"
         /\ vwire = VoiceEncoderTransform(vdest, vpacket)
         /\ Len(vwire.data) >= 2

\* a Speex packet of two frames came out after a refused packet
C14_Witness ==
  /\ voicepc = "written" /\ vout.kind = "error"
  /\ vpacket.timestamp = Undefined
  /\ vpacket.codec = "Speex" /\ Len(vpacket.frames) = 2
  /\ vwire.kind = "data"

-----------------------------------------------------------------------------
(* UdpCrypt from construction on: the key and the IVs are unset until a    *)
(* setter or generateKey stores them.  Here key, decryptIV and encryptIV   *)
(* hold Undefined or BufferValue(bytes).                                   *)

\* what a call leaves: the object, and "ok", "null" or "throw"
Called(self, outcome) == [state |-> self, outcome |-> outcome]

\* UdpCrypt.prototype.ready: a && b && c is the first operand that is
\* undefined, or else the last one
ready(self) ==
  IF self.key = Undefined THEN Undefined
  ELSE IF self.decryptIV = Undefined THEN Undefined
  ELSE self.encryptIV

\* the length test left out
setKeyUnchecked(self, value) == Called([self EXCEPT !.key = value], "ok")

setKey(self, value) ==
  IF Len(value.bytes) # BLOCK_SIZE THEN Called(self, "throw")
  ELSE Called([self EXCEPT !.key = value], "ok")

setDecryptIV(self, value) ==
  IF Len(value.bytes) # BLOCK_SIZE THEN Called(self, "throw")
  ELSE Called([self EXCEPT !.decryptIV = value], "ok")

setEncryptIV(self, value) ==
  IF Len(value.bytes) # BLOCK_SIZE THEN Called(self, "throw")
  ELSE Called([self EXCEPT !.encryptIV = value], "ok")

\* UdpCrypt.prototype.generateKey with what crypto.randomBytes delivered:
\* buf is Undefined when it failed, and then buf.slice throws after
\* callback(err)
generateKey(self, buf) ==
  IF buf = Undefined THEN Called(self, "throw")
  ELSE Called([self EXCEPT
                 !.key = BufferValue(Slice(buf.bytes, 0, BLOCK_SIZE)),
                 !.decryptIV =
                   BufferValue(Slice(buf.bytes, BLOCK_SIZE, BLOCK_SIZE * 2)),
                 !.encryptIV = BufferValue(SliceFrom(buf.bytes,
                                                     BLOCK_SIZE * 2))],
              "ok")

\* UdpCrypt.prototype.encrypt on an object that may not be ready:
\* ++this._encryptIV[i] throws without an encryptIV, createCipheriv throws
\* without a key, after the IV has been incremented
encryptCall(self, plainText) ==
  IF self.encryptIV = Undefined THEN Called(self, "throw")
  ELSE LET newIV == BufferValue(IncrementIV(self.encryptIV.bytes, 0))
       IN  IF self.key = Undefined
           THEN Called([self EXCEPT !.encryptIV = newIV], "throw")
           ELSE Called([self EXCEPT !.encryptIV = newIV], "ok")

\* UdpCrypt.prototype.decrypt on an object that may not be ready:
\* Buffer.from(this._decryptIV) throws without a decryptIV, the carry of
\* line 104 throws without an encryptIV, createCipheriv throws without a key
decryptCall(self, cipherText) ==
  IF cipherText.length < 4 THEN Called(self, "null")
  ELSE IF self.decryptIV = Undefined THEN Called(self, "throw")
  ELSE
    LET d == self.decryptIV.bytes
        noE == self.encryptIV = Undefined
        e == IF noE THEN [j \in 1..BLOCK_SIZE |-> 0]
             ELSE self.encryptIV.bytes
        sync == SyncNonce(d, e, cipherText.ivbyte)
        wrap(iv) == IF noE THEN Undefined ELSE BufferValue(iv)
    IN  IF sync.fail THEN Called(self, "null")
        ELSE IF noE /\ sync.path = "in order, wrapped" /\ d[2] = 255
        THEN Called([self EXCEPT !.decryptIV =
                       BufferValue([d EXCEPT ![1] = cipherText.ivbyte,
                                             ![2] = 0])], "throw")
        ELSE IF self.key = Undefined
        THEN IF /\ sync.checkHistory
                /\ self.decryptHistory[sync.decryptIV[1]] = sync.decryptIV[2]
             THEN Called([self EXCEPT !.encryptIV = wrap(sync.encryptIV)],
                         "null")
             ELSE Called([self EXCEPT
                            !.decryptIV = BufferValue(sync.decryptIV),
                            !.encryptIV = wrap(sync.encryptIV)], "throw")
        ELSE
          LET r == decrypt(CryptState(self.key, d, e, self.decryptHistory,
                                      self.stats), cipherText)
          IN  Called([self EXCEPT
                        !.decryptIV = BufferValue(r.state.decryptIV),
                        !.encryptIV = wrap(r.state.encryptIV),
                        !.decryptHistory = r.state.decryptHistory,
                        !.stats = r.state.stats],
                     IF r.result = Null THEN "null" ELSE "ok")

\* values handed to the setters: 0, 15, 16 and 17 bytes
PeerStartIV ==
  [j \in 1..BLOCK_SIZE |-> IF j = 1 THEN 254 ELSE IF j = 2 THEN 255 ELSE 0]

SetupKey == BufferValue(PeerStartIV)

SetupValues ==
  { BufferValue(<<>>), BufferValue(Fill(BLOCK_SIZE - 1, 7)),
    BufferValue(PeerStartIV), BufferValue(Fill(BLOCK_SIZE + 1, 7)) }

\* what crypto.randomBytes(48) may deliver: a failure, or 48 bytes
RandomBufs == { Undefined, BufferValue([j \in 1..(BLOCK_SIZE * 3) |-> j]) }

\* the peer's first two datagrams under SetupKey, the second one sent
\* after the low byte of its encryptIV wrapped, and a datagram cut short
PeerDatagrams ==
  LET first == encrypt(SetupKey, PeerStartIV, <<72, 105>>)
      second == encrypt(SetupKey, first.encryptIV, <<>>)
  IN  { first.cipherText, second.cipherText,
        [first.cipherText EXCEPT !.length = 3] }

InitSetup ==
  /\ key = Undefined /\ decryptIV = Undefined /\ encryptIV = Undefined
  /\ decryptHistory = [b \in Byte |-> EmptySlot]
  /\ stats = [good |-> 0, late |-> 0, lost |-> 0]
  /\ sEncryptIV = <<>> /\ net = <<>> /\ delivered = 0 /\ inOrder = TRUE
  /\ lastCall = [op |-> "none"] /\ accepted = <<>>
  /\ VarintIdle /\ VoiceIdle /\ CtlIdle

\* the one UdpCrypt object of this harness
Self == CryptState(key, decryptIV, encryptIV, decryptHistory, stats)

\* the object after a call, and the call as lastCall keeps it
AfterCall(op, arg, r) ==
  /\ key' = r.state.key
  /\ decryptIV' = r.state.decryptIV
  /\ encryptIV' = r.state.encryptIV
  /\ decryptHistory' = r.state.decryptHistory
  /\ stats' = r.state.stats
  /\ lastCall' = [op |-> op, arg |-> arg, outcome |-> r.outcome]
  /\ UNCHANGED <<sEncryptIV, inOrder, accepted, varintVars, voiceVars,
                 ctlVars>>

SetKey ==
  /\ \E v \in SetupValues : AfterCall("setKey", v, setKey(Self, v))
  /\ UNCHANGED <<net, delivered>>

SetDecryptIV ==
  /\ \E v \in SetupValues :
       AfterCall("setDecryptIV", v, setDecryptIV(Self, v))
  /\ UNCHANGED <<net, delivered>>

SetEncryptIV ==
  /\ \E v \in SetupValues :
       AfterCall("setEncryptIV", v, setEncryptIV(Self, v))
  /\ UNCHANGED <<net, delivered>>

GenerateKey ==
  /\ \E buf \in RandomBufs :
       AfterCall("generateKey", buf, generateKey(Self, buf))
  /\ UNCHANGED <<net, delivered>>

\* encrypt(plainText); net counts the calls
EncryptCall ==
  /\ Len(net) < MaxSends
  /\ LET r == encryptCall(Self, <<72, 105>>)
     IN  /\ AfterCall("encrypt", BufferValue(<<72, 105>>), r)
         /\ net' = Append(net, "encrypt")
  /\ UNCHANGED delivered

\* decrypt(cipherText) with a datagram of the peer
DecryptCall ==
  /\ delivered < MaxDecrypts
  /\ \E c \in PeerDatagrams : AfterCall("decrypt", c, decryptCall(Self, c))
  /\ delivered' = delivered + 1
  /\ UNCHANGED net

NextSetup ==
  \/ SetKey \/ SetDecryptIV \/ SetEncryptIV \/ GenerateKey
  \/ EncryptCall \/ DecryptCall

SpecSetup == InitSetup /\ [][NextSetup]_vars

\* a field is set, and it holds exactly 16 bytes
IsSet(field) == field # Undefined
SixteenBytes(field) == IsSet(field) => Len(field.bytes) = 16

\* every reachable state: ready() is true exactly when key, encryptIV and
\* decryptIV are all set, and each of them that is set holds 16 bytes
ReadyIffSet ==
  /\ (ready(Self) # Undefined)
       <=> (IsSet(key) /\ IsSet(encryptIV) /\ IsSet(decryptIV))
  /\ SixteenBytes(key) /\ SixteenBytes(decryptIV) /\ SixteenBytes(encryptIV)

\* every step: a setter given a value whose length is not 16 ends in an
\* error and leaves key, decryptIV and encryptIV as they were
SetterRejects ==
  (/\ lastCall'.op \in {"setKey", "setDecryptIV", "setEncryptIV"}
   /\ Len(lastCall'.arg.bytes) # 16) =>
    /\ lastCall'.outcome = "throw"
    /\ <<key, decryptIV, encryptIV>>' = <<key, decryptIV, encryptIV>>

\* C15: a setter given a value whose length is not 16 ends in an error and
\* leaves key, decryptIV and encryptIV as they were; in every reachable
\* state ready() is true exactly when key, encryptIV and decryptIV are all
\* set, and each of them that is set holds exactly 16 bytes
C15_ReadyAndLengths == []ReadyIffSet /\ [][SetterRejects]_vars

\* a ready object that has decrypted a datagram has refused a key of 17
\* bytes
C15_Witness ==
  /\ lastCall.op = "setKey" /\ Len(lastCall.arg.bytes) = 17
  /\ lastCall.outcome = "throw"
  /\ ready(Self) # Undefined /\ stats.good >= 1 /\ Len(net) >= 1

\* C16: no decrypt call changes the key or any byte of the encryptIV of
\* the object it is called on (the carry taken when the low byte of
\* decryptIV wraps goes into decryptIV)
C16_DecryptKeepsEncryptIV ==
  lastCall.op = "decrypt" =>
    /\ key = lastCall.pre.key
    /\ encryptIV = lastCall.pre.encryptIV

\* C17: whatever the network drops, reorders, duplicates or damages, no
\* datagram of the sender is accepted by the receiver more than once
\* (accepted lists the nonces of the datagrams decrypt has returned
\* plaintext for; the tag verifies only under the sender's full nonce)
C17_AcceptedOnce ==
  \A i, j \in 1..Len(accepted) : accepted[i] = accepted[j] => i = j

\* a duplicate of a datagram accepted late has been refused as a replay,
\* after three datagrams were accepted out of order
C17_Witness ==
  /\ lastCall.op = "decrypt" /\ lastCall.outcome = "replay"
  /\ Len(accepted) = 3
  /\ \E i \in 1..Len(accepted) : accepted[i] = lastCall.cipherText.body.nonce
  /\ accepted[1] # net[1].body.nonce

\* the last call was a decrypt of a datagram as the sender produced it
Genuine ==
  /\ lastCall.op = "decrypt"
  /\ \E i \in 1..Len(net) : net[i] = lastCall.cipherText

\* the nonces accepted before the last call
AcceptedBefore ==
  IF lastCall.op = "decrypt" /\ lastCall.outcome = "ok"
  THEN SubSeq(accepted, 1, Len(accepted) - 1)
  ELSE accepted

FreshDatagram ==
  /\ Genuine
  /\ \A i \in 1..Len(AcceptedBefore) :
       AcceptedBefore[i] # lastCall.cipherText.body.nonce

\* bytes 1..15 of two nonces agree
SameHigherBytes(m, n) == \A j \in 2..BLOCK_SIZE : m[j] = n[j]

\* C18: when decryptIV is m and a genuine datagram not accepted before
\* arrives whose nonce n has the higher 15 bytes of m and a low byte 1 to
\* 29 below m[0], decrypt returns its plaintext, adds 1 to stats.late,
\* subtracts 1 from stats.lost, records decryptHistory[n[0]] = n[1] and
\* leaves decryptIV equal to m
C18_LateNoWrap ==
  LET m == lastCall.pre.decryptIV
      n == lastCall.cipherText.body.nonce
  IN  (/\ FreshDatagram
       /\ SameHigherBytes(m, n)
       /\ m[1] - n[1] \in 1..29) =>
        /\ lastCall.result = lastCall.cipherText.body.plain
        /\ stats.late = lastCall.pre.stats.late + 1
        /\ stats.lost = lastCall.pre.stats.lost - 1
        /\ stats.good = lastCall.pre.stats.good + 1
        /\ decryptHistory[n[1]] = n[2]
        /\ decryptIV = m

\* the datagram sent first arrived after the one sent third had been
\* accepted
C18_Witness ==
  /\ FreshDatagram /\ lastCall.path = "late" /\ lastCall.outcome = "ok"
  /\ lastCall.cipherText = net[1]
  /\ lastCall.pre.decryptIV[1] - lastCall.cipherText.ivbyte = 2
  /\ stats.late = 1 /\ stats.lost = 1

\* n is the nonce of the round after m's: the bytes above the low one are
\* those of m plus a carry of 1
NextRound(m, n) ==
  \A j \in 2..BLOCK_SIZE : n[j] = PlusOne([m EXCEPT ![1] = 255])[j]

\* C19: when decryptIV is m and a genuine datagram arrives whose nonce n
\* is 2 to 127 ahead of m with the low byte wrapped past 255 (n[0] < m[0]),
\* decrypt returns the plaintext, adds 256 - m[0] + n[0] - 1 to stats.lost
\* and leaves decryptIV equal to n
C19_LostWrapped ==
  LET m == lastCall.pre.decryptIV
      n == lastCall.cipherText.body.nonce
  IN  (/\ FreshDatagram
       /\ NextRound(m, n)
       /\ n[1] < m[1]
       /\ 256 - m[1] + n[1] \in 2..127) =>
        /\ lastCall.result = lastCall.cipherText.body.plain
        /\ stats.lost = lastCall.pre.stats.lost + 256 - m[1] + n[1] - 1
        /\ decryptIV = n

\* C20: when the low byte of decryptIV m has wrapped and a genuine
\* datagram not accepted before arrives from the round before, 1 to 29
\* behind m (n[0] > m[0]), decrypt returns its plaintext, adds 1 to
\* stats.late, subtracts 1 from stats.lost, and leaves decryptIV equal to m
C20_LateAcrossWrap ==
  LET m == lastCall.pre.decryptIV
      n == lastCall.cipherText.body.nonce
  IN  (/\ FreshDatagram
       /\ NextRound(n, m)
       /\ n[1] > m[1]
       /\ 256 - n[1] + m[1] \in 1..29) =>
        /\ lastCall.result = lastCall.cipherText.body.plain
        /\ stats.late = lastCall.pre.stats.late + 1
        /\ stats.lost = lastCall.pre.stats.lost - 1
        /\ decryptIV = m

-----------------------------------------------------------------------------
(* Crypto harness with long losses: besides single datagrams the sender    *)
(* may encrypt a run of datagrams that the network drops, which moves its  *)
(* counter on by the length of the run.  net keeps a mark for the run.     *)

\* the counter after k more encrypt calls, k < 256: the low byte passes 255
\* at most once, and that one call carries into the higher bytes
EncryptTimes(iv, k) ==
  LET low == iv[1] + k
  IN  IF low < 256 THEN [iv EXCEPT ![1] = low]
      ELSE IncrementIV([iv EXCEPT ![1] = low - 256], 1)

\* lengths of the runs that are lost
LostRuns == {28, 29, 126, 127}

\* S.encrypt is called k times and none of the datagrams arrives
EncryptLost ==
  \E k \in LostRuns :
    /\ Len(net) < MaxSends
    /\ sEncryptIV' = EncryptTimes(sEncryptIV, k)
    /\ net' = Append(net, [lostRun |-> k])
    /\ lastCall' = [op |-> "encrypt lost", run |-> k, pre |-> sEncryptIV]
    /\ UNCHANGED <<key, decryptIV, encryptIV, decryptHistory, stats,
                   delivered, inOrder, accepted, varintVars, voiceVars,
                   ctlVars>>

\* the network delivers one of the datagrams that were not dropped
DeliverKept ==
  \E i \in 1..Len(net) :
    /\ "length" \in DOMAIN net[i]
    /\ Decrypt(net[i], FALSE)

NextCryptLossy == Encrypt \/ EncryptLost \/ DeliverKept

SpecCryptLossy == InitCrypt /\ [][NextCryptLossy]_vars

\* C21: when decryptIV is m and a genuine datagram arrives whose nonce n
\* has the higher 15 bytes of m and a low byte k ahead of m[0], 2 <= k <=
\* 128, decrypt returns the plaintext, adds k - 1 to stats.lost and nothing
\* to stats.late, and leaves decryptIV equal to n; a datagram whose low
\* byte is 30 to 128 behind m[0] is rejected
C21_LostNoWrap ==
  Genuine =>
    LET m == lastCall.pre.decryptIV
        n == lastCall.cipherText.body.nonce
        k == n[1] - m[1]
    IN  /\ (SameHigherBytes(m, n) /\ k \in 2..128) =>
             /\ lastCall.result = lastCall.cipherText.body.plain
             /\ stats.lost = lastCall.pre.stats.lost + k - 1
             /\ stats.late = lastCall.pre.stats.late
             /\ decryptIV = n
        /\ ((m[1] - n[1]) % 256 \in 30..127 \/ m[1] - n[1] = 128) =>
             /\ lastCall.result = Null
             /\ decryptIV = m

\* a datagram 128 ahead was accepted as 127 lost, and then one from 127
\* behind was turned away
C21_Witness ==
  /\ Genuine /\ lastCall.outcome = "out of window"
  /\ lastCall.pre.decryptIV[1] - lastCall.cipherText.ivbyte = 127
  /\ stats.lost = 127 /\ stats.good = 1

\* the last call was a decrypt that returned plaintext
Succeeded == lastCall.op = "decrypt" /\ lastCall.outcome = "ok"

\* C22 as stated: after every successful decrypt, decryptIV equals the
\* full 16-byte nonce of the datagram that was just decrypted
C22_IVIsLastNonce ==
  Succeeded => decryptIV = lastCall.cipherText.body.nonce

\* C22 amended: after a successful decrypt that counted no late packet,
\* decryptIV equals the nonce of the datagram just decrypted; after one that
\* counted a late packet, decryptIV is what it was before the call
C22_IVIsLastNonceUnlessLate ==
  Succeeded =>
    IF stats.late = lastCall.pre.stats.late
    THEN decryptIV = lastCall.cipherText.body.nonce
    ELSE decryptIV = lastCall.pre.decryptIV

\* a late datagram was decrypted and decryptIV is not its nonce
C22_Witness ==
  /\ Succeeded
  /\ stats.late = lastCall.pre.stats.late + 1
  /\ decryptIV = lastCall.pre.decryptIV
  /\ decryptIV # lastCall.cipherText.body.nonce

\* the positions in accepted of the nonces with low byte b
AcceptedAt(b) == {i \in 1..Len(accepted) : accepted[i][1] = b}

\* the last position of a non-empty set of positions
Latest(S) == CHOOSE i \in S : \A j \in S : j <= i

CounterValue(iv) ==
  IF \A j \in 4..BLOCK_SIZE : iv[j] = 0
  THEN iv[1] + 256 * iv[2] + 65536 * iv[3]
  ELSE 0 - 1

\* the number of encrypt calls the sender has made
RECURSIVE EncryptCalls(_)
EncryptCalls(sent) ==
  IF sent = <<>> THEN 0
  ELSE (IF "lostRun" \in DOMAIN sent[1] THEN sent[1].lostRun ELSE 1)
       + EncryptCalls(Tail(sent))

\* sender and receiver started with all counters 0
StartedAtZero == CounterValue(sEncryptIV) = EncryptCalls(net)

\* C24: with a mirrored sender and receiver whose counters started at 0,
\* whatever the network drops, reorders and duplicates, stats.good +
\* stats.lost is the number of steps decryptIV has advanced, stats.good is
\* the number of decrypt calls that returned plaintext, and stats.lost is
\* never negative
C24_StatsAccount ==
  StartedAtZero =>
    /\ stats.good + stats.lost = CounterValue(decryptIV)
    /\ stats.good = Len(accepted)
    /\ stats.lost >= 0

\* the third datagram was accepted first and counted two lost, and then
\* the first was accepted late: two good, one lost, three steps
C24_Witness ==
  /\ StartedAtZero /\ Succeeded
  /\ CounterValue(decryptIV) = 3
  /\ stats = [good |-> 2, late |-> 1, lost |-> 1]

\* the number of bytes the first byte of a varint announces
RECURSIVE Announced(_)
Announced(b) ==
  IF Len(b) = 0 THEN 1
  ELSE LET v == b[1]
       IN  IF v < 128 THEN 1
           ELSE IF v < 192 THEN 2
           ELSE IF v < 224 THEN 3
           ELSE IF v < 240 THEN 4
           ELSE IF v \div 4 = 60 THEN 5
           ELSE IF v \div 4 = 62 THEN 1 + Announced(Tail(b))
           ELSE 1

\* C25: fromVarint returns no value when the input holds fewer bytes than
\* its first byte announces, and a consumed length it reports never exceeds
\* the input length, so the Decoder drops a ping datagram whose timestamp
\* varint is cut off
C25_TruncatedVarintFails ==
  (voicepc = "raw" /\ Len(vchunk) > 0 /\ Shr(vchunk[1], 5) = 1) =>
    LET b == SliceFrom(vchunk, 1)
        val == fromVarint(b)
    IN  /\ Len(b) < Announced(b) => val = Null /\ vout.kind = "debug"
        /\ val # Null => val.length <= Len(b)

\* the packet written to the Encoder is a ping
IsPing == "timestamp" \in DOMAIN vpacket /\ vpacket.timestamp # Undefined

\* C26: toVarint gives its result in one shape, bytes plus byte count, for
\* every i below 2^32, and fails for 2^32 and more; so the voice Encoder
\* given a ping with timestamp -1 emits the two bytes 20 FF
C26_VarintShapeAndPing ==
  IsPing =>
    LET r == toVarint(vpacket.timestamp)
    IN  /\ IF WLess(vpacket.timestamp, Wide(65536, 0))
           THEN r.shape = "object" /\ r.length = Len(r.value)
           ELSE r = VarintThrow
        /\ (voicepc = "encoded" /\ vpacket.timestamp = WFromInt(0 - 1)) =>
             vwire = Pushed(<<32, 255>>)

\* the Encoder took a CELT_Alpha, CELT_Beta or Speex packet and pushed a
\* datagram
CeltEncoded ==
  /\ voicepc = "encoded" /\ vwire.kind = "data"
  /\ ~IsPing /\ vpacket.codec \in {"CELT_Alpha", "CELT_Beta", "Speex"}

\* the frame payload of the datagram pushed: what lies between the sequence
\* number and the position
FramePayload ==
  LET before == 1 + (IF vdest = "client"
                     THEN Len(toVarint(vpacket.source).value) ELSE 0)
                  + Len(toVarint(vpacket.seqNum).value)
      after == IF vpacket.position = Undefined THEN 0 ELSE 12
  IN  SubSeq(vwire.data, before + 1, Len(vwire.data) - after)

\* the frames from the i-th on, each behind its header; last tells whether
\* the header of the final frame is the last header byte of the payload
RECURSIVE FramesFrom(_, _, _)
FramesFrom(frames, i, last) ==
  IF i > Len(frames) THEN <<>>
  ELSE LET continuation == IF i = Len(frames) /\ last THEN 0 ELSE 128
       IN  <<Len(frames[i]) + continuation>> \o frames[i]
             \o FramesFrom(frames, i + 1, last)

\* C27: for every CELT_Alpha, CELT_Beta or Speex packet the encoder accepts
\* the frame payload is the frames in order, each as a header byte and the
\* frame bytes, the header being the frame length with bit 0x80 set except
\* on the last header byte; with end set that last header is an extra byte
\* 0x00 and every real frame keeps bit 0x80, without end the header of the
\* last real frame has bit 0x80 clear
C27_CeltFraming ==
  CeltEncoded =>
    FramePayload = IF vpacket.end
                   THEN FramesFrom(vpacket.frames, 1, FALSE) \o <<0>>
                   ELSE FramesFrom(vpacket.frames, 1, TRUE)

\* two frames of 1 and 127 bytes with end set, behind a 2-byte sequence
\* number and before a position
C27_Witness ==
  /\ CeltEncoded /\ vpacket.end /\ vpacket.position # Undefined
  /\ vpacket.frames = <<<<17>>, Fill(127, 85)>>
  /\ vpacket.seqNum = Wide(0, 300)
  /\ Len(FramePayload) = 131

\* {mode 0, codec CELT_Alpha, seqNum 0, end true, frames [[0x11], [0x22]]}
\* has been written to an Encoder for direction 'server'
ExampleEncoded ==
  /\ voicepc = "encoded" /\ vdest = "server" /\ ~IsPing
  /\ vpacket.codec = "CELT_Alpha" /\ vpacket.mode = 0
  /\ vpacket.seqNum = Wide(0, 0) /\ vpacket.end
  /\ vpacket.frames = <<<<17>>, <<34>>>>
  /\ vpacket.position = Undefined

\* C28 as stated: the example packet encodes to the header byte 00, the
\* sequence number byte 00 and the frame payload 81 11 02 22 00
C28_Example ==
  ExampleEncoded => vwire = Pushed(<<0, 0, 129, 17, 2, 34, 0>>)

\* C28 amended: the example packet encodes to the header byte 00, the
\* sequence number byte 00 and the frame payload 81 11 81 22 00
C28_ExampleBothContinued ==
  ExampleEncoded => vwire = Pushed(<<0, 0, 129, 17, 129, 34, 0>>)

\* the example packet has been encoded to seven bytes
C28_Witness ==
  ExampleEncoded /\ vwire.kind = "data" /\ Len(vwire.data) = 7

====
